---- MODULE Spec2Model ----
(***************************************************************************)
(* Fact Resolution & Validation Engine of the genealogy research tool.     *)
(*                                                                         *)
(* The module holds several specifications over one set of variables, one  *)
(* per component:                                                          *)
(*   SpecRoute   determine_action, the threshold router                    *)
(*   SpecCommit  validate_write_operation and the Gramps write transaction *)
(*   SpecReview  the fact review page and the fact status endpoint         *)
(*   SpecSync    the person page, the sync dialog and the sync endpoints   *)
(*   SpecRetry   the processing queue with bounded retry                   *)
(* Confidence scores are DECIMAL(3,2); they are modelled as integer        *)
(* hundredths (0.85 is 85).                                                *)
(***************************************************************************)
EXTENDS Integers, Sequences, FiniteSets, TLC

VARIABLES
    \* ---- router (specs/confidence-scoring.md section 5.1)
    confidence_score,   \* input of determine_action, in hundredths
    match_status,       \* input of determine_action: the operation category
    always_review,      \* config_settings.always_review
    action,             \* the Action returned, "none" before the call
    \* ---- validation and the Gramps write transaction (SSOT validation spec)
    extracted,          \* extracted_persons rows of the obituary: the pipeline's inputs
    tx,                 \* position of each person's write transaction
    validation,         \* ValidationResult of each person
    ep_local,           \* extracted_persons.match_status / gramps_person_id
    resolution,         \* fact_resolution row of each person's assertion
    mapping,            \* gramps_record_mapping rows
    audit_log,          \* audit_log rows, in insertion order
    gramps,             \* person records held by Gramps Web
    gramps_calls,       \* kinds of write call issued to Gramps Web so far
    gramps_mutations,   \* number of mutations Gramps Web has performed
    reprocessed,        \* number of reprocess requests served
    \* ---- fact review (Review.tsx, PersonDetail.tsx, FactCard.tsx)
    fact_status,        \* extracted_facts.resolution_status, as the server stores it
    shown_status,       \* Fact.resolution_status of the facts the page holds
    review_requests,    \* status requests sent and not yet handled by the page
    review_error,       \* the page's error message is set
    \* ---- person sync (PersonDetail.tsx, SyncModal.tsx)
    sync_status,        \* persons.sync_status, as the server stores it
    gramps_handle,      \* persons.gramps_handle
    gramps_people,      \* handles of the people Gramps Web holds
    page,               \* PersonDetail state of each person's page
    modal,              \* SyncModal state of each person's page
    sync_requests,      \* sync and skip requests sent and not yet handled
    sync_sent,          \* number of sync and skip requests sent
    \* ---- processing queue (SSOT validation spec 7.1, processing_queue)
    queue_status,       \* processing_queue.queue_status
    retry_count,        \* processing_queue.retry_count
    job_stored,         \* the processing_queue row exists
    processing_status,  \* obituary_cache.processing_status of the job's obituary
    gramps_available,   \* Gramps Web answers
    \* ---- classification of one extracted person (SSOT validation spec 4.1, 4.2)
    cl_extracted,       \* the ExtractedPerson handed to validate_write_operation
    cl_matches,         \* scores returned by query_gramps_web_for_matches, best first
    cl_gramps,          \* the GrampsPerson fetched for the best match
    cl_result,          \* the ValidationResult returned, with its conflicts
    \* ---- obituary cache and LLM cache (caching strategy spec)
    ob_row,             \* the obituary_cache row of the URL
    llm_rows,           \* llm_cache rows
    cache_facts,        \* facts extracted from the obituary, all unresolved
    runs,               \* position of each pipeline run
    cache_op,           \* the cache operation performed last
    \* ---- confidence scoring (confidence scoring spec, section 3)
    sc_input,           \* sub-scores, LLM response and person of one scoring
    sc_result,          \* the score returned by calculate_confidence_score
    \* ---- grouping of facts on the review page (Review.tsx)
    group_facts,        \* the facts of one obituary, as the server lists them
    group_result        \* the clusters groupFactsBySubject returned

routeVars == <<confidence_score, match_status, always_review, action>>

commitVars == <<extracted, tx, validation, ep_local, resolution, mapping,
                audit_log, gramps, gramps_calls, gramps_mutations, reprocessed>>

reviewVars == <<fact_status, shown_status, review_requests, review_error>>

syncVars == <<sync_status, gramps_handle, gramps_people, page, modal,
              sync_requests, sync_sent>>

retryVars == <<queue_status, retry_count, job_stored, processing_status,
               gramps_available>>

classifyVars == <<cl_extracted, cl_matches, cl_gramps, cl_result>>

cacheVars == <<ob_row, llm_rows, cache_facts, runs, cache_op>>

scoreVars == <<sc_input, sc_result>>

vars == <<routeVars, commitVars, reviewVars, syncVars, retryVars, classifyVars,
          cacheVars, scoreVars, group_facts, group_result>>

\* What the steps of one component leave alone.
nonRouteVars ==
    <<commitVars, reviewVars, syncVars, retryVars, classifyVars, cacheVars,
      scoreVars,
      group_facts, group_result>>
nonCommitVars ==
    <<routeVars, reviewVars, syncVars, retryVars, classifyVars, cacheVars,
      scoreVars,
      group_facts, group_result>>
nonReviewVars ==
    <<routeVars, commitVars, syncVars, retryVars, classifyVars, cacheVars,
      scoreVars,
      group_facts, group_result>>
nonSyncVars ==
    <<routeVars, commitVars, reviewVars, retryVars, classifyVars, cacheVars,
      scoreVars,
      group_facts, group_result>>
nonRetryVars ==
    <<routeVars, commitVars, reviewVars, syncVars, classifyVars, cacheVars,
      scoreVars,
      group_facts, group_result>>
nonCacheVars ==
    <<routeVars, commitVars, reviewVars, syncVars, retryVars, classifyVars,
      scoreVars,
      group_facts, group_result>>
nonScoreVars ==
    <<routeVars, commitVars, reviewVars, syncVars, retryVars, classifyVars,
      cacheVars,
      group_facts, group_result>>
nonClassifyVars ==
    <<routeVars, commitVars, reviewVars, syncVars, retryVars, cacheVars,
      scoreVars,
      group_facts, group_result>>

(***************************************************************************)
(* Configuration defaults (config_settings)                                *)
(***************************************************************************)
confidence_threshold_auto_store == 85
confidence_threshold_review == 60

OperationType ==
    {"NEW_ENTITY", "NON_CONFLICTING_ADDITION", "CONFLICTING_UPDATE",
     "AMBIGUOUS_MATCH", "REDUNDANT"}

ConflictCategories == {"CONFLICTING_UPDATE", "AMBIGUOUS_MATCH"}

AutoStoreCategories == {"NEW_ENTITY", "NON_CONFLICTING_ADDITION"}

Scores == 0..100

(***************************************************************************)
(* determine_action: the decision matrix                                   *)
(***************************************************************************)
\* A seeded variant: the review threshold is ignored, nothing is rejected.
determine_action_no_reject(score, status, review_all) ==
    IF review_all THEN "REVIEW_REQUIRED"
    ELSE IF score >= confidence_threshold_auto_store
         THEN IF status \in AutoStoreCategories
              THEN "AUTO_STORE"
              ELSE "REVIEW_REQUIRED"
    ELSE "REVIEW_REQUIRED"

determine_action(score, status, review_all) ==
    IF review_all THEN "REVIEW_REQUIRED"
    ELSE IF score >= confidence_threshold_auto_store
         THEN IF status \in AutoStoreCategories
              THEN "AUTO_STORE"
              ELSE "REVIEW_REQUIRED"
    ELSE IF score >= confidence_threshold_review
         THEN "REVIEW_REQUIRED"
    ELSE "REJECT"

RouteInit ==
    /\ confidence_score \in Scores
    /\ match_status \in OperationType
    /\ always_review \in BOOLEAN
    /\ action = "none"

RouteIdle ==
    /\ confidence_score = 0
    /\ match_status = "NEW_ENTITY"
    /\ always_review = FALSE
    /\ action = "none"

\* The router at rest, under either value of config_settings.always_review.
RouteConfig ==
    /\ confidence_score = 0
    /\ match_status = "NEW_ENTITY"
    /\ always_review \in BOOLEAN
    /\ action = "none"

\* The router is called once on the scored, classified fact.
Route ==
    /\ action = "none"
    /\ action' = determine_action(confidence_score, match_status, always_review)
    /\ UNCHANGED <<confidence_score, match_status, always_review>>
    /\ UNCHANGED nonRouteVars

RouteNext == Route

(***************************************************************************)
(* Validation of a write against Gramps Web (SSOT validation spec, 4.1)    *)
(***************************************************************************)
ExtractedPersons == {"e1"}

ambiguous_match_score_diff == 15
match_floor == 70

\* Scores of the candidates returned by query_gramps_web_for_matches, best
\* first: no candidate, one candidate, a clear leader, two close candidates.
MatchLists == {<<>>, <<90>>, <<95, 75>>, <<81, 78>>}

ConflictSeverity == {"CRITICAL", "HIGH", "MEDIUM", "LOW"}

\* Severities of the conflicts detect_conflicts reports for a person.
ConflictSets == {{}, {"HIGH"}}

\* Attributes the extraction asserts and Gramps lacks.
NewAttributeSets == {{}, {"maiden_name"}}

InputScores == {45, 84, 85}

ExtractedPerson ==
    [confidence_score : InputScores, gramps_matches : MatchLists,
     conflicts : ConflictSets, new_attributes : NewAttributeSets]

\* A seeded variant: any two candidates above the floor that are close to each
\* other make the match ambiguous, whatever the leader's margin.
is_clear_best_match_any_pair(matches) ==
    ~(\E i, j \in 1..Len(matches) :
          /\ i < j
          /\ matches[i] > match_floor
          /\ matches[j] > match_floor
          /\ matches[i] - matches[j] < ambiguous_match_score_diff)

\* Criteria of section 2.4: two or more candidates above the floor whose top
\* scores differ by less than ambiguous_match_score_diff are ambiguous.
is_clear_best_match(matches) ==
    ~(/\ Len(matches) >= 2
      /\ matches[2] > match_floor
      /\ matches[1] - matches[2] < ambiguous_match_score_diff)

\* detect_additions: the attributes Gramps lacks, and always the citation.
detect_additions(person) == person.new_attributes \cup {"source_citation"}

\* detect_conflicts: the conflicts found against the best match.
detect_conflicts(person) == person.conflicts

\* A seeded variant: a conflicting update needs approval only below the
\* auto-store threshold.
validate_write_operation_auto_conflict(person) ==
    IF Len(person.gramps_matches) = 0
    THEN [operation_type |-> "NEW_ENTITY",
          requires_approval |->
              person.confidence_score < confidence_threshold_auto_store]
    ELSE IF Len(person.gramps_matches) > 1
            /\ ~is_clear_best_match(person.gramps_matches)
    THEN [operation_type |-> "AMBIGUOUS_MATCH", requires_approval |-> TRUE]
    ELSE IF detect_conflicts(person) # {}
    THEN [operation_type |-> "CONFLICTING_UPDATE",
          requires_approval |->
              person.confidence_score < confidence_threshold_auto_store]
    ELSE IF detect_additions(person) # {}
    THEN [operation_type |-> "NON_CONFLICTING_ADDITION",
          requires_approval |->
              person.confidence_score < confidence_threshold_auto_store]
    ELSE [operation_type |-> "REDUNDANT", requires_approval |-> FALSE]

\* A seeded variant: the conflicts of the best candidate are examined before
\* the ambiguity of the match.
validate_write_operation_conflicts_first(person) ==
    IF Len(person.gramps_matches) = 0
    THEN [operation_type |-> "NEW_ENTITY",
          requires_approval |->
              person.confidence_score < confidence_threshold_auto_store]
    ELSE IF detect_conflicts(person) # {}
    THEN [operation_type |-> "CONFLICTING_UPDATE", requires_approval |-> TRUE]
    ELSE IF Len(person.gramps_matches) > 1
            /\ ~is_clear_best_match(person.gramps_matches)
    THEN [operation_type |-> "AMBIGUOUS_MATCH", requires_approval |-> TRUE]
    ELSE IF detect_additions(person) # {}
    THEN [operation_type |-> "NON_CONFLICTING_ADDITION",
          requires_approval |->
              person.confidence_score < confidence_threshold_auto_store]
    ELSE [operation_type |-> "REDUNDANT", requires_approval |-> FALSE]

validate_write_operation(person) ==
    IF Len(person.gramps_matches) = 0
    THEN [operation_type |-> "NEW_ENTITY",
          requires_approval |->
              person.confidence_score < confidence_threshold_auto_store]
    ELSE IF Len(person.gramps_matches) > 1
            /\ ~is_clear_best_match(person.gramps_matches)
    THEN [operation_type |-> "AMBIGUOUS_MATCH", requires_approval |-> TRUE]
    ELSE IF detect_conflicts(person) # {}
    THEN [operation_type |-> "CONFLICTING_UPDATE", requires_approval |-> TRUE]
    ELSE IF detect_additions(person) # {}
    THEN [operation_type |-> "NON_CONFLICTING_ADDITION",
          requires_approval |->
              person.confidence_score < confidence_threshold_auto_store]
    ELSE [operation_type |-> "REDUNDANT", requires_approval |-> FALSE]

NoValidation == [operation_type |-> "none", requires_approval |-> FALSE]

(***************************************************************************)
(* Local rows and the Gramps Web store                                     *)
(***************************************************************************)
NoGrampsId == -1

\* The record the matcher's best candidate points at exists before the run.
ExistingGrampsId == 0

UnmatchedPerson == [match_status |-> "unmatched", gramps_person_id |-> NoGrampsId]

PendingResolution ==
    [status |-> "pending", is_conflict |-> FALSE, user_approved |-> FALSE,
     option |-> "NONE", user_note |-> FALSE]

IdleTx == [pc |-> "idle", gramps_id |-> NoGrampsId]

ResolutionOptions == {"KEEP_GRAMPS", "USE_EXTRACTED", "MERGE_BOTH", "MANUAL_EDIT"}

GrampsRecord(value) == [value |-> value, alternates |-> {}, citations |-> 0]

NextGrampsId == Cardinality(DOMAIN gramps)

InFlight(e) == tx[e].pc \in {"applying", "gramps_written"}

Stored(e) == tx[e].pc # "deleted"

MaxReprocess == 1

CommitInit ==
    /\ extracted \in [ExtractedPersons -> ExtractedPerson]
    /\ tx = [e \in ExtractedPersons |-> IdleTx]
    /\ validation = [e \in ExtractedPersons |-> NoValidation]
    /\ ep_local = [e \in ExtractedPersons |-> UnmatchedPerson]
    /\ resolution = [e \in ExtractedPersons |-> PendingResolution]
    /\ mapping = {}
    /\ audit_log = <<>>
    /\ gramps = (ExistingGrampsId :> GrampsRecord("gramps"))
    /\ gramps_calls = {}
    /\ gramps_mutations = 0
    /\ reprocessed = 0

CommitIdle ==
    /\ extracted = [e \in ExtractedPersons |->
                       [confidence_score |-> 85, gramps_matches |-> <<>>,
                        conflicts |-> {}, new_attributes |-> {}]]
    /\ tx = [e \in ExtractedPersons |-> IdleTx]
    /\ validation = [e \in ExtractedPersons |-> NoValidation]
    /\ ep_local = [e \in ExtractedPersons |-> UnmatchedPerson]
    /\ resolution = [e \in ExtractedPersons |-> PendingResolution]
    /\ mapping = {}
    /\ audit_log = <<>>
    /\ gramps = (ExistingGrampsId :> GrampsRecord("gramps"))
    /\ gramps_calls = {}
    /\ gramps_mutations = 0
    /\ reprocessed = 0

(***************************************************************************)
(* The write transaction of section 7.2, one step per external call        *)
(***************************************************************************)
\* with db.begin(): validation = validate_write_operation(...).  A result
\* that requires approval writes nothing to Gramps and is left for review.
BeginTransaction(e) ==
    /\ tx[e].pc = "idle"
    /\ LET v == validate_write_operation(extracted[e]) IN
          /\ validation' = [validation EXCEPT ![e] = v]
          /\ IF v.requires_approval
             THEN /\ tx' = [tx EXCEPT ![e].pc = "review"]
                  /\ ep_local' = [ep_local EXCEPT ![e].match_status = "review_needed"]
                  /\ resolution' = [resolution EXCEPT ![e].is_conflict =
                                       (v.operation_type = "CONFLICTING_UPDATE")]
             ELSE /\ tx' = [tx EXCEPT ![e].pc = "applying"]
                  /\ UNCHANGED <<ep_local, resolution>>
    /\ UNCHANGED <<extracted, mapping, audit_log, gramps, gramps_calls,
                   gramps_mutations, reprocessed>>
    /\ UNCHANGED nonCommitVars

\* gramps_id = create_gramps_person(extracted_person) succeeds.
CreateGrampsPerson(e) ==
    /\ tx[e].pc = "applying"
    /\ gramps' = gramps @@ (NextGrampsId :> GrampsRecord("extracted"))
    /\ gramps_calls' = gramps_calls \cup {"create_person"}
    /\ gramps_mutations' = gramps_mutations + 1
    /\ tx' = [tx EXCEPT ![e] = [pc |-> "gramps_written", gramps_id |-> NextGrampsId]]
    /\ UNCHANGED <<extracted, validation, ep_local, resolution, mapping,
                   audit_log, reprocessed>>
    /\ UNCHANGED nonCommitVars

\* create_gramps_person raises GrampsAPIError: db.rollback(), nothing written.
CreateGrampsPersonFails(e) ==
    /\ tx[e].pc = "applying"
    /\ tx' = [tx EXCEPT ![e].pc = "rolled_back"]
    /\ UNCHANGED <<extracted, validation, ep_local, resolution, mapping,
                   audit_log, gramps, gramps_calls, gramps_mutations, reprocessed>>
    /\ UNCHANGED nonCommitVars

\* Steps 3-5 and db.commit(): the id and status, the mapping row, the audit row.
CommitLocal(e) ==
    /\ tx[e].pc = "gramps_written"
    /\ ep_local' = [ep_local EXCEPT ![e] =
                       [match_status |-> "created", gramps_person_id |-> tx[e].gramps_id]]
    /\ mapping' = mapping \cup
                    {[gramps_record_id |-> tx[e].gramps_id, extracted_person_id |-> e]}
    /\ audit_log' = Append(audit_log,
                       [action_type |-> "CREATE", entity_id |-> e,
                        gramps_record_id |-> tx[e].gramps_id,
                        user_action |-> FALSE, gramps_old_value |-> "none"])
    /\ resolution' = [resolution EXCEPT ![e].status = "committed"]
    /\ tx' = [tx EXCEPT ![e].pc = "done"]
    /\ UNCHANGED <<extracted, validation, gramps, gramps_calls,
                   gramps_mutations, reprocessed>>
    /\ UNCHANGED nonCommitVars

\* An insert of steps 3-5 raises IntegrityError: db.rollback() undoes the
\* local rows; no call is made to Gramps Web.
CommitLocalFails(e) ==
    /\ tx[e].pc = "gramps_written"
    /\ tx' = [tx EXCEPT ![e].pc = "rolled_back"]
    /\ UNCHANGED <<extracted, validation, ep_local, resolution, mapping,
                   audit_log, gramps, gramps_calls, gramps_mutations, reprocessed>>
    /\ UNCHANGED nonCommitVars

(***************************************************************************)
(* Review of a result that requires approval (section 3)                   *)
(***************************************************************************)
\* The user approves the pending decision and, for a conflicting update,
\* picks a resolution option; MANUAL_EDIT requires the free-text explanation.
ApproveResolution(e, opt, note) ==
    /\ tx[e].pc = "review"
    /\ resolution[e].status = "pending"
    /\ opt \in (IF validation[e].operation_type = "CONFLICTING_UPDATE"
                THEN ResolutionOptions ELSE {"NONE"})
    /\ (opt = "MANUAL_EDIT") => note
    /\ resolution' = [resolution EXCEPT ![e] =
                         [@ EXCEPT !.status = "approved", !.user_approved = TRUE,
                                   !.option = opt, !.user_note = note]]
    /\ UNCHANGED <<extracted, tx, validation, ep_local, mapping, audit_log,
                   gramps, gramps_calls, gramps_mutations, reprocessed>>
    /\ UNCHANGED nonCommitVars

RejectResolution(e) ==
    /\ tx[e].pc = "review"
    /\ resolution[e].status = "pending"
    /\ resolution' = [resolution EXCEPT ![e].status = "rejected"]
    /\ UNCHANGED <<extracted, tx, validation, ep_local, mapping, audit_log,
                   gramps, gramps_calls, gramps_mutations, reprocessed>>
    /\ UNCHANGED nonCommitVars

\* A seeded variant: MERGE_BOTH makes the extracted value the primary one and
\* keeps the Gramps value as the alternate.
ResolvedRecord_merge_replaces(rec, opt) ==
    CASE opt = "USE_EXTRACTED" ->
            [rec EXCEPT !.value = "extracted", !.citations = @ + 1]
      [] opt = "MERGE_BOTH" ->
            [rec EXCEPT !.value = "extracted",
                        !.alternates = @ \cup {rec.value}, !.citations = @ + 1]
      [] opt = "MANUAL_EDIT" ->
            [rec EXCEPT !.value = "manual", !.citations = @ + 1]
      [] OTHER -> [rec EXCEPT !.citations = @ + 1]

\* The Gramps record after an approved decision is applied to it.
ResolvedRecord(rec, opt) ==
    CASE opt = "USE_EXTRACTED" ->
            [rec EXCEPT !.value = "extracted", !.citations = @ + 1]
      [] opt = "MERGE_BOTH" ->
            [rec EXCEPT !.alternates = @ \cup {"extracted"}, !.citations = @ + 1]
      [] opt = "MANUAL_EDIT" ->
            [rec EXCEPT !.value = "manual", !.citations = @ + 1]
      [] OTHER -> [rec EXCEPT !.citations = @ + 1]

ResolutionCall(category, opt) ==
    CASE category = "NEW_ENTITY" -> "create_person"
      [] opt \in {"USE_EXTRACTED", "MANUAL_EDIT"} -> "update_attribute"
      [] opt = "MERGE_BOTH" -> "add_attribute"
      [] category = "NON_CONFLICTING_ADDITION" -> "add_attribute"
      [] OTHER -> "add_citation"

\* Section 3.2: apply the approved resolution, log it with user_action=TRUE,
\* set match_status and write the gramps_record_mapping row.
ApplyResolution(e) ==
    /\ tx[e].pc = "review"
    /\ resolution[e].status = "approved"
    /\ LET category == validation[e].operation_type
           opt == resolution[e].option
           target == IF category = "NEW_ENTITY" THEN NextGrampsId ELSE ExistingGrampsId
           old == IF category = "NEW_ENTITY" THEN "none"
                  ELSE gramps[ExistingGrampsId].value
       IN /\ gramps' = IF category = "NEW_ENTITY"
                       THEN gramps @@ (target :> ResolvedRecord(GrampsRecord("extracted"), "NONE"))
                       ELSE [gramps EXCEPT ![target] = ResolvedRecord(@, opt)]
          /\ gramps_calls' = gramps_calls \cup {ResolutionCall(category, opt)}
          /\ ep_local' = [ep_local EXCEPT ![e] =
                [match_status |-> IF category = "NEW_ENTITY" THEN "created" ELSE "matched",
                 gramps_person_id |-> target]]
          /\ mapping' = mapping \cup
                {[gramps_record_id |-> target, extracted_person_id |-> e]}
          /\ audit_log' = Append(audit_log,
                [action_type |-> CASE category = "NEW_ENTITY" -> "CREATE"
                                   [] category = "CONFLICTING_UPDATE" -> "CONFLICT_RESOLVED"
                                   [] OTHER -> "ADD_ATTRIBUTE",
                 entity_id |-> e, gramps_record_id |-> target,
                 user_action |-> TRUE, gramps_old_value |-> old])
    /\ gramps_mutations' = gramps_mutations + 1
    /\ resolution' = [resolution EXCEPT ![e].status = "committed"]
    /\ tx' = [tx EXCEPT ![e].pc = "done"]
    /\ UNCHANGED <<extracted, validation, reprocessed>>
    /\ UNCHANGED nonCommitVars

(***************************************************************************)
(* Local deletes, cleanup and reprocessing                                 *)
(***************************************************************************)
ObituaryCached == \A e \in ExtractedPersons : tx[e].pc # "purged"

\* obituary_cache.processing_status as the run leaves it.
ProcessingStatus ==
    IF \A e \in ExtractedPersons : tx[e].pc \in {"idle", "deleted"} THEN "pending"
    ELSE IF \E e \in ExtractedPersons : InFlight(e) THEN "processing"
    ELSE "completed"

\* gramps_record_mapping.extracted_person_id is ON DELETE SET NULL.
UnlinkMapping(rows, persons) ==
    {IF r.extracted_person_id \in persons
     THEN [r EXCEPT !.extracted_person_id = "NULL"] ELSE r : r \in rows}

\* DELETE /api/persons/by-name/delete: the person's facts and resolutions.
DeletePerson(e) ==
    /\ tx[e].pc \notin {"deleted", "purged"}
    /\ ~InFlight(e)
    /\ tx' = [tx EXCEPT ![e] = [pc |-> "deleted", gramps_id |-> NoGrampsId]]
    /\ ep_local' = [ep_local EXCEPT ![e] = UnmatchedPerson]
    /\ resolution' = [resolution EXCEPT ![e] = PendingResolution]
    /\ validation' = [validation EXCEPT ![e] = NoValidation]
    /\ mapping' = UnlinkMapping(mapping, {e})
    /\ UNCHANGED <<extracted, audit_log, gramps, gramps_calls,
                   gramps_mutations, reprocessed>>
    /\ UNCHANGED nonCommitVars

\* Every row that references the obituary goes with it (ON DELETE CASCADE).
PurgeObituary ==
    /\ tx' = [e \in ExtractedPersons |-> [pc |-> "purged", gramps_id |-> NoGrampsId]]
    /\ ep_local' = [e \in ExtractedPersons |-> UnmatchedPerson]
    /\ resolution' = [e \in ExtractedPersons |-> PendingResolution]
    /\ validation' = [e \in ExtractedPersons |-> NoValidation]
    /\ mapping' = {}
    /\ UNCHANGED <<extracted, audit_log, gramps, gramps_calls,
                   gramps_mutations, reprocessed>>

\* DELETE /api/obituaries/{id}
DeleteObituary ==
    /\ ObituaryCached
    /\ \A e \in ExtractedPersons : ~InFlight(e)
    /\ PurgeObituary
    /\ UNCHANGED nonCommitVars

\* A seeded variant: the cleanup also deletes from Gramps Web the records the
\* obituary's mapping rows point at.
CleanupStaleCacheEntriesAndGramps ==
    /\ ObituaryCached
    /\ ProcessingStatus = "completed"
    /\ tx' = [e \in ExtractedPersons |-> [pc |-> "purged", gramps_id |-> NoGrampsId]]
    /\ ep_local' = [e \in ExtractedPersons |-> UnmatchedPerson]
    /\ resolution' = [e \in ExtractedPersons |-> PendingResolution]
    /\ validation' = [e \in ExtractedPersons |-> NoValidation]
    /\ mapping' = {}
    /\ gramps' = [id \in DOMAIN gramps \ {r.gramps_record_id : r \in mapping}
                     |-> gramps[id]]
    /\ gramps_calls' = gramps_calls \cup {"delete_person"}
    /\ UNCHANGED <<extracted, audit_log, gramps_mutations, reprocessed>>
    /\ UNCHANGED nonCommitVars

\* cleanup_stale_cache_entries(dry_run=False): an obituary older than
\* cache_expiry_days whose processing_status is not 'pending' is deleted.  A
\* run lasts seconds and the expiry is a year, so no transaction is in flight.
CleanupStaleCacheEntries ==
    /\ ObituaryCached
    /\ ProcessingStatus = "completed"
    /\ PurgeObituary
    /\ UNCHANGED nonCommitVars

\* POST /api/obituaries/reprocess/{id}: existing facts are deleted and the
\* pipeline runs again on the cached content.
Reprocess ==
    /\ ObituaryCached
    /\ ProcessingStatus = "completed"
    /\ reprocessed < MaxReprocess
    /\ reprocessed' = reprocessed + 1
    /\ tx' = [e \in ExtractedPersons |-> IdleTx]
    /\ ep_local' = [e \in ExtractedPersons |-> UnmatchedPerson]
    /\ resolution' = [e \in ExtractedPersons |-> PendingResolution]
    /\ validation' = [e \in ExtractedPersons |-> NoValidation]
    /\ mapping' = UnlinkMapping(mapping, ExtractedPersons)
    /\ UNCHANGED <<extracted, audit_log, gramps, gramps_calls, gramps_mutations>>
    /\ UNCHANGED nonCommitVars

CommitNext ==
    \/ \E e \in ExtractedPersons : BeginTransaction(e)
    \/ \E e \in ExtractedPersons : CreateGrampsPerson(e)
    \/ \E e \in ExtractedPersons : CreateGrampsPersonFails(e)
    \/ \E e \in ExtractedPersons : CommitLocal(e)
    \/ \E e \in ExtractedPersons : CommitLocalFails(e)
    \/ \E e \in ExtractedPersons, opt \in ResolutionOptions \cup {"NONE"},
          note \in BOOLEAN : ApproveResolution(e, opt, note)
    \/ \E e \in ExtractedPersons : RejectResolution(e)
    \/ \E e \in ExtractedPersons : ApplyResolution(e)
    \/ \E e \in ExtractedPersons : DeletePerson(e)
    \/ DeleteObituary
    \/ CleanupStaleCacheEntries
    \/ Reprocess

(***************************************************************************)
(* Fact review: the Approve, Reject and Approve All buttons and the fact   *)
(* status endpoint                                                         *)
(***************************************************************************)
Facts == {"f1", "f2"}

ResolutionStatus == {"unresolved", "resolved", "conflicting", "rejected"}

\* Status requests that may be outstanding at once.
MaxReviewRequests == 2

\* loadFacts has run: the page shows what the server stores.
ReviewInit ==
    /\ fact_status \in [Facts -> ResolutionStatus]
    /\ shown_status = fact_status
    /\ review_requests = {}
    /\ review_error = FALSE

ReviewIdle ==
    /\ fact_status = [f \in Facts |-> "unresolved"]
    /\ shown_status = [f \in Facts |-> "unresolved"]
    /\ review_requests = {}
    /\ review_error = FALSE

\* FactClusterCard: unresolvedFactIds
unresolvedFactIds == {f \in Facts : shown_status[f] = "unresolved"}

\* A number no outstanding status request carries.
FreeReviewId ==
    CHOOSE i \in 1..MaxReviewRequests : \A r \in review_requests : r.id # i

StatusRequest(ids, status) ==
    [id |-> FreeReviewId, fact_ids |-> ids, resolution_status |-> status,
     state |-> "sent"]

\* api.patch(...): the request leaves the page.
SendStatusRequest(ids, status) ==
    /\ Cardinality(review_requests) < MaxReviewRequests
    /\ review_requests' = review_requests \cup {StatusRequest(ids, status)}
    /\ UNCHANGED <<fact_status, shown_status, review_error>>

\* handleApprove up to its await.  FactCard offers the button only on a fact
\* it shows as unresolved.
handleApprove(f) ==
    /\ shown_status[f] = "unresolved"
    /\ SendStatusRequest({f}, "resolved")
    /\ UNCHANGED nonReviewVars

\* handleReject up to its await.
handleReject(f) ==
    /\ shown_status[f] = "unresolved"
    /\ SendStatusRequest({f}, "rejected")
    /\ UNCHANGED nonReviewVars

\* handleApproveAll up to its await.  FactClusterCard offers the button when
\* more than one fact is shown unresolved and passes unresolvedFactIds.
handleApproveAll ==
    /\ Cardinality(unresolvedFactIds) > 1
    /\ SendStatusRequest(unresolvedFactIds, "resolved")
    /\ UNCHANGED nonReviewVars

\* PATCH /api/obituaries/facts/{id}/status and /bulk-status: the status of
\* every fact named is set to the one requested; the old status is reported
\* back, not tested.
updateFactStatus(r) ==
    /\ r \in review_requests
    /\ r.state = "sent"
    /\ fact_status' = [f \in Facts |->
                          IF f \in r.fact_ids THEN r.resolution_status
                          ELSE fact_status[f]]
    /\ review_requests' = (review_requests \ {r}) \cup {[r EXCEPT !.state = "ok"]}
    /\ UNCHANGED <<shown_status, review_error>>
    /\ UNCHANGED nonReviewVars

\* The request fails (network or server error): nothing is stored.
updateFactStatusFails(r) ==
    /\ r \in review_requests
    /\ r.state = "sent"
    /\ review_requests' = (review_requests \ {r}) \cup {[r EXCEPT !.state = "error"]}
    /\ UNCHANGED <<fact_status, shown_status, review_error>>
    /\ UNCHANGED nonReviewVars

\* A seeded variant: the handler marks every fact shown, not only those sent.
setClusters_marks_all(r) ==
    /\ r \in review_requests
    /\ r.state = "ok"
    /\ shown_status' = [f \in Facts |-> r.resolution_status]
    /\ review_requests' = review_requests \ {r}
    /\ UNCHANGED <<fact_status, review_error>>
    /\ UNCHANGED nonReviewVars

\* The handler after its await: setClusters / setPerson marks the facts sent.
setClusters(r) ==
    /\ r \in review_requests
    /\ r.state = "ok"
    /\ shown_status' = [f \in Facts |->
                           IF f \in r.fact_ids THEN r.resolution_status
                           ELSE shown_status[f]]
    /\ review_requests' = review_requests \ {r}
    /\ UNCHANGED <<fact_status, review_error>>
    /\ UNCHANGED nonReviewVars

\* The handler's catch: setError, no fact is touched.
setError(r) ==
    /\ r \in review_requests
    /\ r.state = "error"
    /\ review_error' = TRUE
    /\ review_requests' = review_requests \ {r}
    /\ UNCHANGED <<fact_status, shown_status>>
    /\ UNCHANGED nonReviewVars

\* loadFacts: setError(null), then the facts as the server returns them.
loadFacts ==
    /\ shown_status' = fact_status
    /\ review_error' = FALSE
    /\ UNCHANGED <<fact_status, review_requests>>
    /\ UNCHANGED nonReviewVars

ReviewNext ==
    \/ \E f \in Facts : handleApprove(f)
    \/ \E f \in Facts : handleReject(f)
    \/ handleApproveAll
    \/ \E r \in review_requests : updateFactStatus(r)
    \/ \E r \in review_requests : updateFactStatusFails(r)
    \/ \E r \in review_requests : setClusters(r)
    \/ \E r \in review_requests : setError(r)
    \/ loadFacts

(***************************************************************************)
(* Person sync: the person page, the sync dialog and the sync endpoints    *)
(***************************************************************************)
Persons == {"p1", "p2"}

SyncStatus == {"pending", "matched", "created", "committed", "rejected"}

\* gramps_handle: string | null
NoHandle == 0

\* The person Gramps Web holds before any sync.
ExistingHandle == 1

auto_select_score == 85

\* Answers of GET /api/persons/by-name/gramps-matches, best match first.
MatchResponses ==
    {<<>>,
     <<[handle |-> ExistingHandle, score |-> 90]>>,
     <<[handle |-> ExistingHandle, score |-> 70]>>}

\* Sync and skip requests sent in one run.
MaxSyncRequests == 2

\* PersonDetail once loadPerson has answered; showSyncModal starts false.
LoadedPage(p) ==
    [person |-> p, sync_status |-> sync_status[p], showSyncModal |-> FALSE]

\* The useState defaults of SyncModal.
MountedModal ==
    [loading |-> TRUE, syncing |-> FALSE, selectedHandle |-> NoHandle,
     createNew |-> FALSE, error |-> FALSE, matches |-> <<>>]

\* No dialog is mounted.
NoModal ==
    [loading |-> FALSE, syncing |-> FALSE, selectedHandle |-> NoHandle,
     createNew |-> FALSE, error |-> FALSE, matches |-> <<>>]

SyncInit ==
    /\ sync_status = [p \in Persons |-> "pending"]
    /\ gramps_handle = [p \in Persons |-> NoHandle]
    /\ gramps_people = {ExistingHandle}
    /\ page = [person |-> "p1", sync_status |-> "pending", showSyncModal |-> FALSE]
    /\ modal = NoModal
    /\ sync_requests = {}
    /\ sync_sent = 0

\* PersonDetail: canSync
canSync == page.sync_status \in {"pending", "rejected"}

\* The Sync to Gramps button: setShowSyncModal(true) mounts a new SyncModal,
\* whose effect starts loadMatches.
openSyncModal ==
    /\ canSync
    /\ ~page.showSyncModal
    /\ page' = [page EXCEPT !.showSyncModal = TRUE]
    /\ modal' = MountedModal
    /\ UNCHANGED <<sync_status, gramps_handle, gramps_people, sync_requests, sync_sent>>
    /\ UNCHANGED nonSyncVars

\* loadMatches after its await: the matches, and the top match selected
\* when its score is at least 0.85.
loadMatches(found) ==
    /\ page.showSyncModal
    /\ modal.loading
    /\ modal' = [modal EXCEPT !.matches = found,
                              !.selectedHandle =
                                  IF Len(found) > 0 /\ found[1].score >= auto_select_score
                                  THEN found[1].handle ELSE @,
                              !.loading = FALSE]
    /\ UNCHANGED <<sync_status, gramps_handle, gramps_people, page,
                   sync_requests, sync_sent>>
    /\ UNCHANGED nonSyncVars

\* loadMatches, catch and finally.
loadMatchesFails ==
    /\ page.showSyncModal
    /\ modal.loading
    /\ modal' = [modal EXCEPT !.error = TRUE, !.loading = FALSE]
    /\ UNCHANGED <<sync_status, gramps_handle, gramps_people, page,
                   sync_requests, sync_sent>>
    /\ UNCHANGED nonSyncVars

\* The match rows are rendered once loading is over.
handleSelectMatch(handle) ==
    /\ page.showSyncModal
    /\ ~modal.loading
    /\ \E i \in 1..Len(modal.matches) : modal.matches[i].handle = handle
    /\ modal' = [modal EXCEPT !.selectedHandle = handle, !.createNew = FALSE]
    /\ UNCHANGED <<sync_status, gramps_handle, gramps_people, page,
                   sync_requests, sync_sent>>
    /\ UNCHANGED nonSyncVars

\* A seeded variant: Create New leaves the selected match in place.
handleCreateNew_keeps_selection ==
    /\ page.showSyncModal
    /\ ~modal.loading
    /\ modal' = [modal EXCEPT !.createNew = TRUE]
    /\ UNCHANGED <<sync_status, gramps_handle, gramps_people, page,
                   sync_requests, sync_sent>>
    /\ UNCHANGED nonSyncVars

handleCreateNew ==
    /\ page.showSyncModal
    /\ ~modal.loading
    /\ modal' = [modal EXCEPT !.selectedHandle = NoHandle, !.createNew = TRUE]
    /\ UNCHANGED <<sync_status, gramps_handle, gramps_people, page,
                   sync_requests, sync_sent>>
    /\ UNCHANGED nonSyncVars

\* A request as it leaves the dialog.  dialog and detail tell whether the
\* SyncModal and the PersonDetail that sent it are still mounted.
SyncRequest(kind, handle, create) ==
    [id |-> sync_sent + 1, person |-> page.person, kind |-> kind,
     gramps_handle |-> handle, create_new |-> create, state |-> "sent",
     dialog |-> TRUE, detail |-> TRUE]

\* handleSync up to its await.  The button is disabled while syncing and
\* while nothing is chosen.
handleSync ==
    /\ page.showSyncModal
    /\ ~modal.syncing
    /\ modal.selectedHandle # NoHandle \/ modal.createNew
    /\ sync_sent < MaxSyncRequests
    /\ modal' = [modal EXCEPT !.syncing = TRUE, !.error = FALSE]
    /\ sync_requests' = sync_requests \cup
           {SyncRequest("sync",
                        IF modal.createNew THEN NoHandle ELSE modal.selectedHandle,
                        modal.createNew)}
    /\ sync_sent' = sync_sent + 1
    /\ UNCHANGED <<sync_status, gramps_handle, gramps_people, page>>
    /\ UNCHANGED nonSyncVars

\* handleSkip up to its await.  The button is disabled while syncing.
handleSkip ==
    /\ page.showSyncModal
    /\ ~modal.syncing
    /\ sync_sent < MaxSyncRequests
    /\ modal' = [modal EXCEPT !.syncing = TRUE]
    /\ sync_requests' = sync_requests \cup {SyncRequest("skip", NoHandle, FALSE)}
    /\ sync_sent' = sync_sent + 1
    /\ UNCHANGED <<sync_status, gramps_handle, gramps_people, page>>
    /\ UNCHANGED nonSyncVars

\* A seeded variant: unmounting the dialog aborts its unanswered requests.
DialogUnmounted_aborts(requests) ==
    {[r EXCEPT !.dialog = FALSE] : r \in {q \in requests : q.state # "sent"}}

\* The dialog is unmounted: its pending handlers lose their state.
DialogUnmounted(requests) == {[r EXCEPT !.dialog = FALSE] : r \in requests}

\* The page is left: the pending handlers of the page and its dialog lose
\* their state.
DetailUnmounted(requests) ==
    {[r EXCEPT !.dialog = FALSE, !.detail = FALSE] : r \in requests}

\* onClose, from the backdrop and the x button, which are never disabled.
onClose ==
    /\ page.showSyncModal
    /\ page' = [page EXCEPT !.showSyncModal = FALSE]
    /\ modal' = NoModal
    /\ sync_requests' = DialogUnmounted(sync_requests)
    /\ UNCHANGED <<sync_status, gramps_handle, gramps_people, sync_sent>>
    /\ UNCHANGED nonSyncVars

\* The user opens another person's page: a new PersonDetail, loadPerson.
openPerson(p) ==
    /\ p # page.person
    /\ page' = LoadedPage(p)
    /\ modal' = NoModal
    /\ sync_requests' = DetailUnmounted(sync_requests)
    /\ UNCHANGED <<sync_status, gramps_handle, gramps_people, sync_sent>>
    /\ UNCHANGED nonSyncVars

NewHandle == Cardinality(gramps_people) + 1

\* POST /api/persons/by-name/sync and /skip: link the person to the handle
\* sent, create a new Gramps person, or mark the person as skipped.
syncPerson(r) ==
    /\ r \in sync_requests
    /\ r.state = "sent"
    /\ sync_status' = [sync_status EXCEPT ![r.person] =
                          IF r.kind = "skip" THEN "rejected"
                          ELSE IF r.create_new THEN "created" ELSE "matched"]
    /\ gramps_handle' = [gramps_handle EXCEPT ![r.person] =
                            IF r.kind = "skip" THEN @
                            ELSE IF r.create_new THEN NewHandle ELSE r.gramps_handle]
    /\ gramps_people' = IF r.kind = "sync" /\ r.create_new
                        THEN gramps_people \cup {NewHandle} ELSE gramps_people
    /\ sync_requests' = (sync_requests \ {r}) \cup {[r EXCEPT !.state = "ok"]}
    /\ UNCHANGED <<page, modal, sync_sent>>
    /\ UNCHANGED nonSyncVars

\* The request fails: nothing is stored.
syncPersonFails(r) ==
    /\ r \in sync_requests
    /\ r.state = "sent"
    /\ sync_requests' = (sync_requests \ {r}) \cup {[r EXCEPT !.state = "error"]}
    /\ UNCHANGED <<sync_status, gramps_handle, gramps_people, page, modal, sync_sent>>
    /\ UNCHANGED nonSyncVars

\* onSyncComplete after the await: handleSyncComplete closes the dialog and
\* loadPerson reloads the person; on a page that was left it sets nothing.
handleSyncComplete(r) ==
    /\ r \in sync_requests
    /\ r.state = "ok"
    /\ IF r.detail
       THEN /\ page' = LoadedPage(page.person)
            /\ modal' = NoModal
            /\ sync_requests' = DialogUnmounted(sync_requests \ {r})
       ELSE /\ sync_requests' = sync_requests \ {r}
            /\ UNCHANGED <<page, modal>>
    /\ UNCHANGED <<sync_status, gramps_handle, gramps_people, sync_sent>>
    /\ UNCHANGED nonSyncVars

\* The catch of handleSync and handleSkip: setError and setSyncing(false),
\* which set nothing once the dialog that sent the request is unmounted.
handleSyncError(r) ==
    /\ r \in sync_requests
    /\ r.state = "error"
    /\ modal' = IF r.dialog
                THEN [modal EXCEPT !.error = TRUE, !.syncing = FALSE]
                ELSE modal
    /\ sync_requests' = sync_requests \ {r}
    /\ UNCHANGED <<sync_status, gramps_handle, gramps_people, page, sync_sent>>
    /\ UNCHANGED nonSyncVars

SyncNext ==
    \/ openSyncModal
    \/ \E found \in MatchResponses : loadMatches(found)
    \/ loadMatchesFails
    \/ \E h \in {ExistingHandle} : handleSelectMatch(h)
    \/ handleCreateNew
    \/ handleSync
    \/ handleSkip
    \/ onClose
    \/ \E p \in Persons : openPerson(p)
    \/ \E r \in sync_requests : syncPerson(r)
    \/ \E r \in sync_requests : syncPersonFails(r)
    \/ \E r \in sync_requests : handleSyncComplete(r)
    \/ \E r \in sync_requests : handleSyncError(r)

(***************************************************************************)
(* Processing queue: retry when Gramps Web is unavailable (section 7.1)    *)
(***************************************************************************)
Jobs == {"j1", "j2"}

max_retry_attempts == 3

QueueStatus == {"queued", "processing", "completed", "failed", "retry"}

RetryInit ==
    /\ queue_status = [j \in Jobs |-> "queued"]
    /\ retry_count = [j \in Jobs |-> 0]
    /\ job_stored = [j \in Jobs |-> TRUE]
    /\ processing_status = [j \in Jobs |-> "pending"]
    /\ gramps_available \in BOOLEAN

RetryIdle ==
    /\ queue_status = [j \in Jobs |-> "queued"]
    /\ retry_count = [j \in Jobs |-> 0]
    /\ job_stored = [j \in Jobs |-> TRUE]
    /\ processing_status = [j \in Jobs |-> "pending"]
    /\ gramps_available = TRUE

\* A worker takes a queued job, or one whose backoff is over.
StartJob(j) ==
    /\ job_stored[j]
    /\ queue_status[j] \in {"queued", "retry"}
    /\ queue_status' = [queue_status EXCEPT ![j] = "processing"]
    /\ processing_status' = [processing_status EXCEPT ![j] = "processing"]
    /\ UNCHANGED <<retry_count, job_stored, gramps_available>>
    /\ UNCHANGED nonRetryVars

\* The run reaches Gramps Web and ends.
CompleteJob(j) ==
    /\ job_stored[j]
    /\ queue_status[j] = "processing"
    /\ gramps_available
    /\ queue_status' = [queue_status EXCEPT ![j] = "completed"]
    /\ processing_status' = [processing_status EXCEPT ![j] = "completed"]
    /\ UNCHANGED <<retry_count, job_stored, gramps_available>>
    /\ UNCHANGED nonRetryVars

\* A seeded variant: the attempt count is compared with <= and one retry too
\* many is queued.
GrampsApiFailureOneMore(j) ==
    /\ job_stored[j]
    /\ queue_status[j] = "processing"
    /\ ~gramps_available
    /\ processing_status' = [processing_status EXCEPT ![j] = "failed"]
    /\ IF retry_count[j] <= max_retry_attempts
       THEN /\ retry_count' = [retry_count EXCEPT ![j] = @ + 1]
            /\ queue_status' = [queue_status EXCEPT ![j] = "retry"]
       ELSE /\ queue_status' = [queue_status EXCEPT ![j] = "failed"]
            /\ UNCHANGED retry_count
    /\ UNCHANGED <<job_stored, gramps_available>>
    /\ UNCHANGED nonRetryVars

\* Section 7.1: Gramps Web is unreachable.  processing_status is set to
\* failed and the job is queued for retry; after max_retry_attempts retries
\* it is set to failed permanently.
GrampsApiFailure(j) ==
    /\ job_stored[j]
    /\ queue_status[j] = "processing"
    /\ ~gramps_available
    /\ processing_status' = [processing_status EXCEPT ![j] = "failed"]
    /\ IF retry_count[j] < max_retry_attempts
       THEN /\ retry_count' = [retry_count EXCEPT ![j] = @ + 1]
            /\ queue_status' = [queue_status EXCEPT ![j] = "retry"]
       ELSE /\ queue_status' = [queue_status EXCEPT ![j] = "failed"]
            /\ UNCHANGED retry_count
    /\ UNCHANGED <<job_stored, gramps_available>>
    /\ UNCHANGED nonRetryVars

\* The attempt of a job in processing ends, one way or the other.
AttemptEnds(j) == CompleteJob(j) \/ GrampsApiFailure(j)

\* Gramps Web goes down or comes back.
GrampsAvailability ==
    /\ gramps_available' = ~gramps_available
    /\ UNCHANGED <<queue_status, retry_count, job_stored, processing_status>>
    /\ UNCHANGED nonRetryVars

\* cleanup_failed_entries: the obituaries whose job is failed with
\* retry_count >= max_retry_attempts are deleted; the queue rows go with
\* them (ON DELETE CASCADE).
cleanup_failed_entries ==
    LET failed == {j \in Jobs : /\ job_stored[j]
                                /\ queue_status[j] = "failed"
                                /\ retry_count[j] >= max_retry_attempts}
    IN /\ failed # {}
       /\ job_stored' = [j \in Jobs |-> job_stored[j] /\ j \notin failed]
       /\ UNCHANGED <<queue_status, retry_count, processing_status, gramps_available>>
       /\ UNCHANGED nonRetryVars

RetryNext ==
    \/ \E j \in Jobs : StartJob(j)
    \/ \E j \in Jobs : CompleteJob(j)
    \/ \E j \in Jobs : GrampsApiFailure(j)
    \/ GrampsAvailability
    \/ cleanup_failed_entries

(***************************************************************************)
(* Classification of one extracted person against its best match           *)
(* (SSOT validation spec 4.1 and 4.2).  Dates are day numbers.             *)
(***************************************************************************)
\* None: the attribute is absent.
NoDate == 0

date_tolerance_birth_days == 30
date_tolerance_death_days == 7

\* The record Gramps Web holds for the best candidate was born on day 100 and
\* died on day 200, or lacks the date.
GrampsBirthDate == 100
GrampsDeathDate == 200

\* Birth and death dates the extraction asserts: absent, equal, at the
\* tolerance, one day beyond it.
ExtractedAttributes ==
    [birth_date : {NoDate, GrampsBirthDate - date_tolerance_birth_days - 1,
                   GrampsBirthDate, GrampsBirthDate + date_tolerance_birth_days,
                   GrampsBirthDate + date_tolerance_birth_days + 1},
     death_date : {NoDate, GrampsDeathDate,
                   GrampsDeathDate + date_tolerance_death_days,
                   GrampsDeathDate + date_tolerance_death_days + 1},
     gender : {"M", "F", "U"}, full_name : {"John Smith"},
     relationship : {"none", "father", "stepfather"},
     confidence_score : {45, 99}, new_attributes : NewAttributeSets]

GrampsPerson ==
    [birth_date : {NoDate, GrampsBirthDate}, death_date : {NoDate, GrampsDeathDate},
     gender : {"M", "U"}, full_name : {"John Smith", "Robert Jones"},
     relationship : {"none", "father"}]

\* No record is fetched when the matcher returns no candidate.
NoGrampsPerson ==
    [birth_date |-> NoDate, death_date |-> NoDate, gender |-> "U",
     full_name |-> "John Smith", relationship |-> "none"]

\* Candidate lists of the matcher, best first: none, one, a clear leader, two
\* close candidates, a clear leader followed by two close lower candidates, a
\* close runner-up that is below the floor.
CandidateLists == MatchLists \cup {<<95, 75, 74>>, <<80, 68>>}

dates_match_within_tolerance(d1, d2, tolerance_days) ==
    (IF d1 >= d2 THEN d1 - d2 ELSE d2 - d1) <= tolerance_days

names_are_compatible(n1, n2) == n1 = n2

\* The relationship Gramps holds for the same pair of persons, if any.
find_matching_relationship(extracted_rel, gramps_rel) == gramps_rel

Conflict(attribute, severity) == [attribute |-> attribute, severity |-> severity]

\* A seeded variant: death dates are compared with the birth-date tolerance.
detect_conflicts_with_one_tolerance(ex, gr) ==
    (IF /\ ex.birth_date # NoDate /\ gr.birth_date # NoDate
        /\ ~dates_match_within_tolerance(ex.birth_date, gr.birth_date,
                                         date_tolerance_birth_days)
     THEN {Conflict("birth_date", "HIGH")} ELSE {})
    \cup
    (IF /\ ex.death_date # NoDate /\ gr.death_date # NoDate
        /\ ~dates_match_within_tolerance(ex.death_date, gr.death_date,
                                         date_tolerance_birth_days)
     THEN {Conflict("death_date", "HIGH")} ELSE {})
    \cup
    (IF ex.gender # "U" /\ gr.gender # "U" /\ ex.gender # gr.gender
     THEN {Conflict("gender", "CRITICAL")} ELSE {})
    \cup
    (IF ~names_are_compatible(ex.full_name, gr.full_name)
     THEN {Conflict("name", "HIGH")} ELSE {})
    \cup
    (IF /\ ex.relationship # "none"
        /\ find_matching_relationship(ex.relationship, gr.relationship)
               # "none"
        /\ find_matching_relationship(ex.relationship, gr.relationship)
               # ex.relationship
     THEN {Conflict("relationship", "CRITICAL")} ELSE {})

\* detect_conflicts, attribute by attribute, against the fetched record.
detect_conflicts_with(ex, gr) ==
    (IF /\ ex.birth_date # NoDate /\ gr.birth_date # NoDate
        /\ ~dates_match_within_tolerance(ex.birth_date, gr.birth_date,
                                         date_tolerance_birth_days)
     THEN {Conflict("birth_date", "HIGH")} ELSE {})
    \cup
    (IF /\ ex.death_date # NoDate /\ gr.death_date # NoDate
        /\ ~dates_match_within_tolerance(ex.death_date, gr.death_date,
                                         date_tolerance_death_days)
     THEN {Conflict("death_date", "HIGH")} ELSE {})
    \cup
    (IF ex.gender # "U" /\ gr.gender # "U" /\ ex.gender # gr.gender
     THEN {Conflict("gender", "CRITICAL")} ELSE {})
    \cup
    (IF ~names_are_compatible(ex.full_name, gr.full_name)
     THEN {Conflict("name", "HIGH")} ELSE {})
    \cup
    (IF /\ ex.relationship # "none"
        /\ find_matching_relationship(ex.relationship, gr.relationship)
               # "none"
        /\ find_matching_relationship(ex.relationship, gr.relationship)
               # ex.relationship
     THEN {Conflict("relationship", "CRITICAL")} ELSE {})

NoClassification ==
    [operation_type |-> "none", requires_approval |-> FALSE, conflicts |-> {}]

ClassifyInit ==
    /\ cl_extracted \in ExtractedAttributes
    /\ cl_matches \in CandidateLists
    /\ cl_gramps \in (IF cl_matches = <<>> THEN {NoGrampsPerson} ELSE GrampsPerson)
    /\ cl_result = NoClassification

ClassifyIdle ==
    /\ cl_extracted = [birth_date |-> NoDate, death_date |-> NoDate,
                       gender |-> "U", full_name |-> "John Smith",
                       relationship |-> "none",
                       confidence_score |-> 99, new_attributes |-> {}]
    /\ cl_matches = <<>>
    /\ cl_gramps = NoGrampsPerson
    /\ cl_result = NoClassification

\* The person handed to validate_write_operation: its conflicts are those
\* detect_conflicts finds against the record of the best candidate.
ClassifiedPerson ==
    [confidence_score |-> cl_extracted.confidence_score,
     gramps_matches |-> cl_matches,
     conflicts |-> {c.severity : c \in detect_conflicts_with(cl_extracted, cl_gramps)},
     new_attributes |-> cl_extracted.new_attributes]

\* validate_write_operation is called once; only a CONFLICTING_UPDATE result
\* carries conflicts.
Classify ==
    /\ cl_result = NoClassification
    /\ LET v == validate_write_operation(ClassifiedPerson) IN
          cl_result' =
              [operation_type |-> v.operation_type,
               requires_approval |-> v.requires_approval,
               conflicts |->
                   IF v.operation_type = "CONFLICTING_UPDATE"
                   THEN detect_conflicts_with(cl_extracted, cl_gramps)
                   ELSE {}]
    /\ UNCHANGED <<cl_extracted, cl_matches, cl_gramps>>
    /\ UNCHANGED nonClassifyVars

(***************************************************************************)
(* The obituary cache and the LLM response cache (caching strategy,        *)
(* sections 3, 4 and 7): pipeline runs on one URL with one prompt and      *)
(* unchanged content, and the maintenance operations                       *)
(***************************************************************************)
Runs == {"r1", "r2"}

\* No obituary_cache row for the URL.
NoRow == [stored |-> FALSE, fetch_age |-> "none", processing_status |-> "pending"]

NewRun(model) ==
    [pc |-> "start", model |-> model, doc_hit |-> FALSE, llm_hit |-> FALSE,
     error |-> "none"]

CacheInit ==
    /\ ob_row = NoRow
    /\ llm_rows = {}
    /\ cache_facts = {}
    /\ runs \in {[r \in Runs |-> NewRun(IF r = "r1" THEN "gpt-4" ELSE m)] :
                    m \in {"gpt-4", "gpt-3.5-turbo"}}
    /\ cache_op = "none"

CacheIdle ==
    /\ ob_row = NoRow
    /\ llm_rows = {}
    /\ cache_facts = {}
    /\ runs = [r \in Runs |-> NewRun("gpt-4")]
    /\ cache_op = "none"

\* fetch_obituary_with_cache, step 2: a row younger than cache_expiry_days
\* is a hit; a row whose fetch_timestamp is NULL makes the age computation
\* raise; otherwise the page is scraped.
FetchLookup(r) ==
    /\ runs[r].pc = "start"
    /\ runs' = [runs EXCEPT ![r] =
           IF ob_row.stored /\ ob_row.fetch_age = "fresh"
           THEN [@ EXCEPT !.pc = "extract", !.doc_hit = TRUE]
           ELSE IF ob_row.stored /\ ob_row.fetch_age = "none"
           THEN [@ EXCEPT !.pc = "failed", !.error = "TypeError"]
           ELSE [@ EXCEPT !.pc = "scraping"]]
    /\ cache_op' = "fetch_obituary_with_cache"
    /\ UNCHANGED <<ob_row, llm_rows, cache_facts>>
    /\ UNCHANGED nonCacheVars

\* store_obituary_in_cache, the query for an existing row: an existing row
\* is updated and committed, otherwise a new row is prepared.
StoreObituaryCheck(r) ==
    /\ runs[r].pc = "scraping"
    /\ IF ob_row.stored
       THEN /\ ob_row' = [ob_row EXCEPT !.fetch_age = "fresh",
                                        !.processing_status = "pending"]
            /\ runs' = [runs EXCEPT ![r].pc = "extract"]
       ELSE /\ runs' = [runs EXCEPT ![r].pc = "inserting"]
            /\ UNCHANGED ob_row
    /\ cache_op' = "store_obituary_in_cache"
    /\ UNCHANGED <<llm_rows, cache_facts>>
    /\ UNCHANGED nonCacheVars

\* store_obituary_in_cache, db.add and db.commit: obituary_cache.url is
\* UNIQUE, so the insert raises IntegrityError when the row exists by now.
StoreObituaryInsert(r) ==
    /\ runs[r].pc = "inserting"
    /\ IF ob_row.stored
       THEN /\ runs' = [runs EXCEPT ![r] =
                           [@ EXCEPT !.pc = "failed", !.error = "IntegrityError: url"]]
            /\ UNCHANGED ob_row
       ELSE /\ ob_row' = [stored |-> TRUE, fetch_age |-> "fresh",
                          processing_status |-> "pending"]
            /\ runs' = [runs EXCEPT ![r].pc = "extract"]
    /\ cache_op' = "store_obituary_in_cache"
    /\ UNCHANGED <<llm_rows, cache_facts>>
    /\ UNCHANGED nonCacheVars

\* call_llm_with_cache, step 2: a row with the prompt hash, provider and
\* model of the run is a hit and the extraction is stored; otherwise the
\* API is called.
LlmLookup(r) ==
    /\ runs[r].pc = "extract"
    /\ IF \E row \in llm_rows : row.model_version = runs[r].model
       THEN /\ runs' = [runs EXCEPT ![r] = [@ EXCEPT !.pc = "done", !.llm_hit = TRUE]]
            /\ cache_facts' = IF ob_row.stored THEN Facts ELSE cache_facts
            /\ ob_row' = IF ob_row.stored
                         THEN [ob_row EXCEPT !.processing_status = "completed"]
                         ELSE ob_row
       ELSE /\ runs' = [runs EXCEPT ![r].pc = "calling"]
            /\ UNCHANGED <<ob_row, cache_facts>>
    /\ cache_op' = "call_llm_with_cache"
    /\ UNCHANGED llm_rows
    /\ UNCHANGED nonCacheVars

\* store_llm_response_in_cache: db.add of a new llm_cache row (prompt_hash is
\* indexed, not unique); the insert fails when the obituary row it references
\* is gone.  The extraction is then stored and the obituary completed.
StoreLlmResponse(r) ==
    /\ runs[r].pc = "calling"
    /\ IF ob_row.stored
       THEN /\ llm_rows' = llm_rows \cup
                   {[id |-> Cardinality(llm_rows) + 1, model_version |-> runs[r].model]}
            /\ runs' = [runs EXCEPT ![r].pc = "done"]
            /\ cache_facts' = Facts
            /\ ob_row' = [ob_row EXCEPT !.processing_status = "completed"]
       ELSE /\ runs' = [runs EXCEPT ![r] =
                           [@ EXCEPT !.pc = "failed",
                                     !.error = "IntegrityError: obituary_cache_id"]]
            /\ UNCHANGED <<ob_row, llm_rows, cache_facts>>
    /\ cache_op' = "store_llm_response_in_cache"
    /\ UNCHANGED nonCacheVars

\* A seeded variant: the LLM responses expire with the document.
ExpireDocumentAndResponses ==
    /\ ob_row.stored
    /\ ob_row.fetch_age = "fresh"
    /\ ob_row' = [ob_row EXCEPT !.fetch_age = "stale"]
    /\ llm_rows' = {}
    /\ cache_op' = "cache_expiry_days"
    /\ UNCHANGED <<cache_facts, runs>>
    /\ UNCHANGED nonCacheVars

\* cache_expiry_days pass since fetch_timestamp.
ExpireDocument ==
    /\ ob_row.stored
    /\ ob_row.fetch_age = "fresh"
    /\ ob_row' = [ob_row EXCEPT !.fetch_age = "stale"]
    /\ cache_op' = "cache_expiry_days"
    /\ UNCHANGED <<llm_rows, cache_facts, runs>>
    /\ UNCHANGED nonCacheVars

\* The scheduled job, dry_run=False: a stale obituary that is not pending is
\* deleted; its llm_cache rows and its facts go with it (ON DELETE CASCADE).
cleanup_stale_cache_entries ==
    /\ ob_row.stored
    /\ ob_row.fetch_age = "stale"
    /\ ob_row.processing_status # "pending"
    /\ ob_row' = NoRow
    /\ llm_rows' = {}
    /\ cache_facts' = {}
    /\ cache_op' = "cleanup_stale_cache_entries"
    /\ UNCHANGED runs
    /\ UNCHANGED nonCacheVars

\* invalidate_obituary_cache: the obituary is pending again, its llm_cache
\* rows are deleted.  fetch_timestamp = None is stored as NULL, or as the
\* current time where the column is not nullable.
invalidate_obituary_cache ==
    /\ ob_row.stored
    /\ \E age \in {"none", "fresh"} :
          ob_row' = [ob_row EXCEPT !.processing_status = "pending", !.fetch_age = age]
    /\ llm_rows' = {}
    /\ cache_op' = "invalidate_obituary_cache"
    /\ UNCHANGED <<cache_facts, runs>>
    /\ UNCHANGED nonCacheVars

\* DELETE /api/obituaries/{id}: the user deletes the obituary.
deleteObituary ==
    /\ ob_row.stored
    /\ ob_row' = NoRow
    /\ llm_rows' = {}
    /\ cache_facts' = {}
    /\ cache_op' = "deleteObituary"
    /\ UNCHANGED runs
    /\ UNCHANGED nonCacheVars

CacheNext ==
    \/ \E r \in Runs : FetchLookup(r)
    \/ \E r \in Runs : StoreObituaryCheck(r)
    \/ \E r \in Runs : StoreObituaryInsert(r)
    \/ \E r \in Runs : LlmLookup(r)
    \/ \E r \in Runs : StoreLlmResponse(r)
    \/ ExpireDocument
    \/ cleanup_stale_cache_entries
    \/ invalidate_obituary_cache
    \/ deleteObituary

(***************************************************************************)
(* The confidence score of an extracted person (confidence scoring,        *)
(* sections 2 and 3).  Sub-scores and the LLM confidence are hundredths,   *)
(* the weighted sum and the penalties are ten-thousandths.                 *)
(***************************************************************************)
\* score_llm_confidence: an explicit confidence is returned as it is,
\* otherwise 0.90 less 0.15 per uncertainty factor, floored at 0.
score_llm_confidence(llm_response) ==
    IF llm_response.has_confidence THEN llm_response.confidence
    ELSE IF llm_response.uncertainty_factors = 0 THEN 90
    ELSE IF 90 - llm_response.uncertainty_factors * 15 > 0
         THEN 90 - llm_response.uncertainty_factors * 15
    ELSE 0

\* apply_penalties: the deductions, then max(score, 0.0).
apply_penalties(score, person) ==
    LET s1 == IF ~person.surname /\ ~person.is_deceased_primary
              THEN score - 2000 ELSE score
        s2 == IF person.birth_date = NoDate /\ person.death_date = NoDate
                 /\ person.age = 0
              THEN s1 - 2000 ELSE s1
        s3 == IF person.birth_date # NoDate /\ person.death_date # NoDate
                 /\ person.death_date < person.birth_date
              THEN s2 - 3000 ELSE s2
        calculated_age == (person.death_date - person.birth_date) \div 365
        s4 == IF /\ person.age # 0
                 /\ person.birth_date # NoDate /\ person.death_date # NoDate
                 /\ (calculated_age - person.age > 2 \/ person.age - calculated_age > 2)
              THEN s3 - 2000 ELSE s3
    IN IF s4 > 0 THEN s4 ELSE 0

\* round(final_score, 2): ten-thousandths to hundredths, ties to even.
round2(x) ==
    LET q == x \div 100
        rest == x % 100
    IN IF rest > 50 \/ (rest = 50 /\ q % 2 = 1) THEN q + 1 ELSE q

\* `term in text` on Python strings: term is a substring of text.
in_str(term, text) ==
    \E i \in 1..(Len(text) - Len(term) + 1) :
        SubSeq(text, i, i + Len(term) - 1) = term

\* score_name_clarity: points for the parts of the name, capped at 1.0.
\* given_names and surname are strings ("" when absent); has_title,
\* has_nickname and has_suffix are what the helpers find in full_name.
score_name_clarity(person) ==
    LET base == IF person.given_names # "" /\ person.surname THEN 50
                ELSE IF person.surname THEN 30
                ELSE IF person.given_names # "" THEN 20 ELSE 0
        score == base
                 + (IF person.given_names # "" /\ in_str(" ", person.given_names)
                    THEN 15 ELSE 0)
                 + (IF person.maiden_name THEN 10 ELSE 0)
                 + (IF person.has_title THEN 10 ELSE 0)
                 + (IF person.has_nickname THEN 10 ELSE 0)
                 + (IF person.has_suffix THEN 5 ELSE 0)
    IN IF score < 100 THEN score ELSE 100

\* score_relationship_clarity: the first term set with a member that is a
\* substring of the relationship type decides the base score; a possessive
\* pattern in the context adds 0.20, capped at 1.0.
score_relationship_clarity(relationship_type, context) ==
    LET explicit_terms == {"wife", "husband", "mother", "father", "son",
                           "daughter", "brother", "sister", "grandmother",
                           "grandfather"}
        moderate_terms == {"spouse", "parent", "child", "sibling",
                           "grandparent", "stepfather", "stepmother",
                           "half-brother", "half-sister"}
        ambiguous_terms == {"partner", "companion", "friend", "relative",
                            "family"}
        possessive_patterns == {"his wife", "her husband", "their son",
                                "his mother"}
        base_score ==
            IF \E term \in explicit_terms : in_str(term, relationship_type)
            THEN 100
            ELSE IF \E term \in moderate_terms : in_str(term, relationship_type)
            THEN 70
            ELSE IF \E term \in ambiguous_terms : in_str(term, relationship_type)
            THEN 40
            ELSE 20
    IN IF \E pattern \in possessive_patterns : in_str(pattern, context)
       THEN (IF base_score + 20 < 100 THEN base_score + 20 ELSE 100)
       ELSE base_score

\* calculate_confidence_score: the weighted sum of the five sub-scores, the
\* penalties, the rounding.  The person has one relationship, whose clarity
\* is the person's average relationship clarity.
calculate_confidence_score(in) ==
    round2(apply_penalties(
               score_name_clarity(in.person) * 30
                 + score_relationship_clarity(in.relationship.relationship_type,
                                              in.relationship.context) * 25
                 + in.date_specificity * 20
                 + score_llm_confidence(in.llm_response) * 15
                 + in.context_quality * 10,
               in.person))

\* The persons scored.  The names are "John Michael Smith Jr." (given and
\* middle name, surname, suffix), "John", "Smith" and a name with every
\* part; the relationship terms are lower-cased as the function lowers
\* them.  The date specificity is what the person's attributes give:
\* both dates exact with locations (1.0), one exact date (0.35), an age only
\* (0.15) or nothing.  The LLM response is whatever the model returned.
ScoreInit ==
    LET ScoredNames ==
            {[given_names |-> "john michael", surname |-> TRUE, maiden_name |-> FALSE,
              has_title |-> FALSE, has_nickname |-> FALSE, has_suffix |-> TRUE],
             [given_names |-> "john", surname |-> FALSE, maiden_name |-> FALSE,
              has_title |-> FALSE, has_nickname |-> FALSE, has_suffix |-> FALSE],
             [given_names |-> "", surname |-> TRUE, maiden_name |-> FALSE,
              has_title |-> FALSE, has_nickname |-> FALSE, has_suffix |-> FALSE],
             [given_names |-> "mary elizabeth", surname |-> TRUE, maiden_name |-> TRUE,
              has_title |-> TRUE, has_nickname |-> TRUE, has_suffix |-> TRUE]}
        RelationshipTerms ==
            {"father", "stepfather", "half-brother", "spouse", "partner", "friend",
             "cousin"}
    IN
    /\ sc_input \in
          {[relationship |-> [relationship_type |-> rt, context |-> ctx],
            date_specificity |->
                IF p.birth_date # NoDate /\ p.death_date # NoDate THEN 100
                ELSE IF p.birth_date # NoDate \/ p.death_date # NoDate THEN 35
                ELSE IF p.age # 0 THEN 15 ELSE 0,
            context_quality |-> cq,
            llm_response |-> l,
            person |-> [given_names |-> n.given_names, surname |-> n.surname,
                        maiden_name |-> n.maiden_name, has_title |-> n.has_title,
                        has_nickname |-> n.has_nickname,
                        has_suffix |-> n.has_suffix,
                        is_deceased_primary |-> p.is_deceased_primary,
                        birth_date |-> p.birth_date,
                        death_date |-> p.death_date, age |-> p.age]] :
             rt \in RelationshipTerms, ctx \in {"", "his wife"},
             cq \in {0, 100}, n \in ScoredNames,
             l \in [has_confidence : {TRUE}, confidence : {-50, 95, 100, 150},
                    uncertainty_factors : {0}]
                   \cup [has_confidence : {FALSE}, confidence : {0},
                         uncertainty_factors : {0, 7}],
             p \in [is_deceased_primary : BOOLEAN,
                    birth_date : {NoDate, 1000},
                    death_date : {NoDate, 500, 30200},
                    age : {0, 70, 80}]}
    /\ sc_result = [scored |-> FALSE, score |-> 0, name_clarity |-> 0,
                    relationship_clarity |-> 0]

ScoreIdle ==
    /\ sc_input =
          [relationship |-> [relationship_type |-> "father", context |-> ""],
           date_specificity |-> 100, context_quality |-> 100,
           llm_response |-> [has_confidence |-> TRUE, confidence |-> 95,
                             uncertainty_factors |-> 0],
           person |-> [given_names |-> "john", surname |-> TRUE,
                       maiden_name |-> FALSE, has_title |-> FALSE,
                       has_nickname |-> FALSE, has_suffix |-> FALSE,
                       is_deceased_primary |-> TRUE,
                       birth_date |-> NoDate, death_date |-> NoDate, age |-> 0]]
    /\ sc_result = [scored |-> FALSE, score |-> 0, name_clarity |-> 0,
                    relationship_clarity |-> 0]

Score ==
    /\ ~sc_result.scored
    /\ sc_result' =
          [scored |-> TRUE,
           score |-> calculate_confidence_score(sc_input),
           name_clarity |-> score_name_clarity(sc_input.person),
           relationship_clarity |->
               score_relationship_clarity(sc_input.relationship.relationship_type,
                                          sc_input.relationship.context)]
    /\ UNCHANGED sc_input
    /\ UNCHANGED nonScoreVars

(***************************************************************************)
(* The review page groups the facts of an obituary by subject (Review.tsx) *)
(***************************************************************************)
\* Facts of one obituary that the page groups.
MaxFacts == 4

\* A seeded variant: the clusters of the other subjects are sorted by
\* ascending number of facts.
groupFactsBySubject_ascending(facts) ==
    LET RECURSIVE forEach(_, _)
        forEach(groups, i) ==
            IF i > Len(facts) THEN groups
            ELSE LET fact == facts[i]
                     known == \E k \in 1..Len(groups) :
                                 groups[k].subject_name = fact.subject_name
                     created ==
                         IF known THEN groups
                         ELSE Append(groups,
                                     [subject_name |-> fact.subject_name,
                                      subject_role |-> fact.subject_role,
                                      facts |-> <<>>])
                 IN forEach([k \in 1..Len(created) |->
                                IF created[k].subject_name = fact.subject_name
                                THEN [created[k] EXCEPT !.facts = Append(@, fact)]
                                ELSE created[k]],
                            i + 1)
        compare(a, b) ==
            IF a.subject_role = "deceased_primary" THEN -1
            ELSE IF b.subject_role = "deceased_primary" THEN 1
            ELSE Len(a.facts) - Len(b.facts)
        RECURSIVE search(_, _, _, _)
        search(sorted, pivot, left, right) ==
            IF left >= right THEN left
            ELSE LET mid == left + (right - left) \div 2
                 IN IF compare(pivot, sorted[mid + 1]) < 0
                    THEN search(sorted, pivot, left, mid)
                    ELSE search(sorted, pivot, mid + 1, right)
        RECURSIVE sort(_, _)
        sort(sorted, rest) ==
            IF rest = <<>> THEN sorted
            ELSE LET pivot == Head(rest)
                     at == search(sorted, pivot, 0, Len(sorted))
                 IN sort(SubSeq(sorted, 1, at) \o <<pivot>>
                             \o SubSeq(sorted, at + 1, Len(sorted)),
                         Tail(rest))
    IN sort(<<>>, forEach(<<>>, 1))

\* groupFactsBySubject.  forEach files each fact under its subject_name,
\* creating the group with the role of the first fact of that name;
\* Object.values lists the groups in the order they were created; sort
\* orders them with the comparator, as the stable binary insertion that
\* sorts a short array.
groupFactsBySubject(facts) ==
    LET RECURSIVE forEach(_, _)
        forEach(groups, i) ==
            IF i > Len(facts) THEN groups
            ELSE LET fact == facts[i]
                     known == \E k \in 1..Len(groups) :
                                 groups[k].subject_name = fact.subject_name
                     created ==
                         IF known THEN groups
                         ELSE Append(groups,
                                     [subject_name |-> fact.subject_name,
                                      subject_role |-> fact.subject_role,
                                      facts |-> <<>>])
                 IN forEach([k \in 1..Len(created) |->
                                IF created[k].subject_name = fact.subject_name
                                THEN [created[k] EXCEPT !.facts = Append(@, fact)]
                                ELSE created[k]],
                            i + 1)
        compare(a, b) ==
            IF a.subject_role = "deceased_primary" THEN -1
            ELSE IF b.subject_role = "deceased_primary" THEN 1
            ELSE Len(b.facts) - Len(a.facts)
        RECURSIVE search(_, _, _, _)
        search(sorted, pivot, left, right) ==
            IF left >= right THEN left
            ELSE LET mid == left + (right - left) \div 2
                 IN IF compare(pivot, sorted[mid + 1]) < 0
                    THEN search(sorted, pivot, left, mid)
                    ELSE search(sorted, pivot, mid + 1, right)
        RECURSIVE sort(_, _)
        sort(sorted, rest) ==
            IF rest = <<>> THEN sorted
            ELSE LET pivot == Head(rest)
                     at == search(sorted, pivot, 0, Len(sorted))
                 IN sort(SubSeq(sorted, 1, at) \o <<pivot>>
                             \o SubSeq(sorted, at + 1, Len(sorted)),
                         Tail(rest))
    IN sort(<<>>, forEach(<<>>, 1))

\* No obituary is loaded on the review page.
GroupIdle ==
    /\ group_facts = <<>>
    /\ group_result = [done |-> FALSE, clusters |-> <<>>]

\* loadFacts after its await: setClusters(groupFactsBySubject(response.facts)).
GroupFacts ==
    /\ ~group_result.done
    /\ group_result' = [done |-> TRUE, clusters |-> groupFactsBySubject(group_facts)]
    /\ UNCHANGED group_facts
    /\ UNCHANGED <<routeVars, commitVars, reviewVars, syncVars, retryVars,
                   classifyVars, cacheVars, scoreVars>>

(***************************************************************************)
(* The specifications: one component runs, the others stay as constructed  *)
(***************************************************************************)
InitRoute ==
    RouteInit /\ CommitIdle /\ ReviewIdle /\ SyncInit /\ RetryIdle /\ ClassifyIdle /\ CacheIdle
        /\ ScoreIdle /\ GroupIdle

SpecRoute == InitRoute /\ [][RouteNext]_vars

InitCommit ==
    CommitInit /\ RouteConfig /\ ReviewIdle /\ SyncInit /\ RetryIdle /\ ClassifyIdle /\ CacheIdle
        /\ ScoreIdle /\ GroupIdle

SpecCommit == InitCommit /\ [][CommitNext]_vars

InitReview ==
    ReviewInit /\ RouteIdle /\ CommitIdle /\ SyncInit /\ RetryIdle /\ ClassifyIdle /\ CacheIdle
        /\ ScoreIdle /\ GroupIdle

SpecReview == InitReview /\ [][ReviewNext]_vars

InitSync ==
    SyncInit /\ RouteIdle /\ CommitIdle /\ ReviewIdle /\ RetryIdle /\ ClassifyIdle /\ CacheIdle
        /\ ScoreIdle /\ GroupIdle

SpecSync == InitSync /\ [][SyncNext]_vars

\* The dialog of one PersonDetail page: the user stays on the page, and the
\* server answers every request it was sent (the call returns or fails).
SyncModalNext ==
    \/ openSyncModal
    \/ \E found \in MatchResponses : loadMatches(found)
    \/ loadMatchesFails
    \/ \E h \in {ExistingHandle} : handleSelectMatch(h)
    \/ handleCreateNew
    \/ handleSync
    \/ handleSkip
    \/ onClose
    \/ \E r \in sync_requests : syncPerson(r)
    \/ \E r \in sync_requests : syncPersonFails(r)
    \/ \E r \in sync_requests : handleSyncComplete(r)
    \/ \E r \in sync_requests : handleSyncError(r)

SpecSyncModal ==
    /\ InitSync
    /\ [][SyncModalNext]_vars
    /\ WF_vars(\E r \in sync_requests : syncPerson(r) \/ syncPersonFails(r))

InitRetry ==
    RetryInit /\ RouteIdle /\ CommitIdle /\ ReviewIdle /\ SyncInit /\ ClassifyIdle /\ CacheIdle
        /\ ScoreIdle /\ GroupIdle

SpecRetry == InitRetry /\ [][RetryNext]_vars

\* The queue worker keeps running: a job that can be started is started, and
\* an attempt ends (every call to Gramps Web returns or times out).
RetryFairness ==
    \A j \in Jobs : WF_vars(StartJob(j)) /\ WF_vars(AttemptEnds(j))

SpecRetryFair == SpecRetry /\ RetryFairness

InitClassify ==
    ClassifyInit /\ RouteIdle /\ CommitIdle /\ ReviewIdle /\ SyncInit /\ RetryIdle
        /\ CacheIdle /\ ScoreIdle /\ GroupIdle

SpecClassify == InitClassify /\ [][Classify]_vars

InitCache ==
    CacheInit /\ RouteIdle /\ CommitIdle /\ ReviewIdle /\ SyncInit /\ RetryIdle
        /\ ClassifyIdle /\ ScoreIdle /\ GroupIdle

SpecCache == InitCache /\ [][CacheNext]_vars

InitScore ==
    ScoreInit /\ RouteIdle /\ CommitIdle /\ ReviewIdle /\ SyncInit /\ RetryIdle
        /\ ClassifyIdle /\ CacheIdle /\ GroupIdle

SpecScore == InitScore /\ [][Score]_vars

\* The facts GET /api/obituaries/facts/{id} returns: up to MaxFacts facts with
\* distinct ids, about three subjects, in either of two roles.
InitGroup ==
    /\ group_facts \in
          UNION {{[i \in 1..n |-> [id |-> i,
                                  subject_name |-> f[i].subject_name,
                                  subject_role |-> f[i].subject_role]] :
                    f \in [1..n -> [subject_name : {"John Smith", "Mary Smith",
                                                    "Robert Jones"},
                                    subject_role : {"deceased_primary",
                                                    "spouse"}]]} :
                 n \in 0..MaxFacts}
    /\ group_result = [done |-> FALSE, clusters |-> <<>>]
    /\ RouteIdle /\ CommitIdle /\ ReviewIdle /\ SyncInit /\ RetryIdle
    /\ ClassifyIdle /\ CacheIdle /\ ScoreIdle

SpecGroup == InitGroup /\ [][GroupFacts]_vars

(***************************************************************************)
(* C1: a fact whose category is CONFLICTING_UPDATE or AMBIGUOUS_MATCH is   *)
(* routed REVIEW_REQUIRED for every confidence and either value of the     *)
(* force-review flag, never AUTO_STORE and never REJECT.                   *)
(***************************************************************************)
C1_ConflictAlwaysReview ==
    (action # "none" /\ match_status \in ConflictCategories)
        => action = "REVIEW_REQUIRED"

C3_CommitAllOrNothing ==
    \A e \in ExtractedPersons :
        tx[e].pc = "rolled_back"
        => /\ tx[e].gramps_id \notin DOMAIN gramps
           /\ ep_local[e] = UnmatchedPerson
           /\ resolution[e].status = "pending"
           /\ \A r \in mapping : r.extracted_person_id # e
           /\ \A i \in 1..Len(audit_log) :
                 audit_log[i].gramps_record_id # tx[e].gramps_id

(***************************************************************************)
(* C4: whenever no write transaction is in flight, the audit log holds     *)
(* exactly one entry per mutation of Gramps Web, and every committed       *)
(* person has an audit entry with its Gramps id.                           *)
(***************************************************************************)
C4_AuditCompleteness ==
    /\ (\A e \in ExtractedPersons : ~InFlight(e))
          => Len(audit_log) = gramps_mutations
    /\ \A e \in ExtractedPersons :
          resolution[e].status = "committed"
          => \E i \in 1..Len(audit_log) :
                audit_log[i].gramps_record_id = ep_local[e].gramps_person_id

(***************************************************************************)
(* C5: no operation issues a delete against Gramps Web: no step removes a  *)
(* Gramps record or makes a delete call, and the local deletes, cleanup    *)
(* and reprocessing leave Gramps Web exactly as it was.                    *)
(***************************************************************************)
WriteCalls == {"create_person", "update_attribute", "add_attribute", "add_citation"}

C5_NoExternalDelete ==
    [][/\ DOMAIN gramps \subseteq DOMAIN gramps'
       /\ gramps_calls' \subseteq WriteCalls
       /\ (\E e \in ExtractedPersons :
              tx'[e].pc \in {"deleted", "purged"} /\ tx[e].pc # tx'[e].pc)
          => gramps' = gramps]_vars

C5_Witness ==
    /\ \E e \in ExtractedPersons : tx[e].pc = "purged"
    /\ Cardinality(DOMAIN gramps) > 1
    /\ gramps_calls # {}

(***************************************************************************)
(* C6: the only changes of a fact's resolution status are unresolved to    *)
(* resolved, unresolved to conflicting, unresolved to rejected and         *)
(* conflicting to resolved; resolved and rejected are never left.          *)
(***************************************************************************)
C6_FactStateMachine ==
    [][\A f \in Facts :
          fact_status'[f] # fact_status[f]
          => \/ /\ fact_status[f] = "unresolved"
                /\ fact_status'[f] \in {"resolved", "conflicting", "rejected"}
             \/ /\ fact_status[f] = "conflicting"
                /\ fact_status'[f] = "resolved"]_vars

(***************************************************************************)
(* C7: every change of a person's sync status is pending to matched,       *)
(* pending to created or pending to rejected, or a change from one of      *)
(* those three to committed; committed is never left and never reached     *)
(* from pending.                                                           *)
(***************************************************************************)
C7_SyncStateMachine ==
    [][\A p \in Persons :
          sync_status'[p] # sync_status[p]
          => \/ /\ sync_status[p] = "pending"
                /\ sync_status'[p] \in {"matched", "created", "rejected"}
             \/ /\ sync_status[p] \in {"matched", "created", "rejected"}
                /\ sync_status'[p] = "committed"]_vars

(***************************************************************************)
(* C8: no two sync requests that are sent and not yet served target the    *)
(* same external record: the same Gramps handle to link to, or the new     *)
(* Gramps person of the same local person.                                 *)
(***************************************************************************)
C8_OneCommitInFlight ==
    \A r1, r2 \in sync_requests :
        (/\ r1.id # r2.id
         /\ r1.kind = "sync" /\ r1.state = "sent"
         /\ r2.kind = "sync" /\ r2.state = "sent")
        => ~ \/ /\ r1.create_new /\ r2.create_new
                /\ r1.person = r2.person
             \/ /\ ~r1.create_new /\ ~r2.create_new
                /\ r1.gramps_handle = r2.gramps_handle

(***************************************************************************)
(* C9: no two distinct persons carry the same non-null Gramps handle.      *)
(***************************************************************************)
C9_ExternalIdUnique ==
    \A p, q \in Persons :
        (p # q /\ gramps_handle[p] # NoHandle)
        => gramps_handle[p] # gramps_handle[q]

C11_AutoApplyIffAllThree ==
    \A e \in ExtractedPersons :
        validation[e] # NoValidation =>
            (~validation[e].requires_approval <=>
                /\ validation[e].operation_type \in AutoStoreCategories
                /\ extracted[e].confidence_score >= confidence_threshold_auto_store
                /\ ~always_review)

C15_DateConflictBoundary ==
    (/\ cl_result # NoClassification
     /\ cl_result.operation_type \notin {"NEW_ENTITY", "AMBIGUOUS_MATCH"}) =>
        LET ex == cl_extracted
            gr == cl_gramps
            apart(d1, d2, days) == d1 - d2 > days \/ d2 - d1 > days
            reported(a) == \E c \in cl_result.conflicts : c.attribute = a
        IN /\ reported("birth_date") <=>
                 /\ ex.birth_date # NoDate /\ gr.birth_date # NoDate
                 /\ apart(ex.birth_date, gr.birth_date, 30)
           /\ reported("death_date") <=>
                 /\ ex.death_date # NoDate /\ gr.death_date # NoDate
                 /\ apart(ex.death_date, gr.death_date, 7)
           /\ \A c \in cl_result.conflicts :
                 c.attribute \in {"birth_date", "death_date"} => c.severity = "HIGH"

C15_Witness ==
    /\ cl_result.operation_type = "CONFLICTING_UPDATE"
    /\ cl_gramps.birth_date = GrampsBirthDate
    /\ cl_extracted.birth_date = GrampsBirthDate + 31
    /\ cl_gramps.death_date = GrampsDeathDate
    /\ cl_extracted.death_date = GrampsDeathDate + 7
    /\ Conflict("birth_date", "HIGH") \in cl_result.conflicts
    /\ ~\E c \in cl_result.conflicts : c.attribute = "death_date"

(***************************************************************************)
(* C16: when an obituary whose first pass committed its write to Gramps    *)
(* Web (the mapping row exists) is reprocessed, the automatic write of the *)
(* second pass creates no person: the set of Gramps persons stays as the   *)
(* first pass left it.                                                     *)
(***************************************************************************)
C16_ReprocessCreatesNoPerson ==
    [][(/\ reprocessed > 0
        /\ mapping # {}
        /\ \E e \in ExtractedPersons : tx[e].pc = "applying")
           => DOMAIN gramps' = DOMAIN gramps]_vars

C18_CacheWritesAreUpserts ==
    /\ \A a, b \in llm_rows : a.model_version = b.model_version => a = b
    /\ \A r \in Runs : runs[r].error # "IntegrityError: url"

(***************************************************************************)
(* C19: unresolved facts are removed from the local state only by the      *)
(* user's deletion of their obituary.                                      *)
(***************************************************************************)
C19_FactsRemovedOnlyByUser ==
    [][(cache_facts \ cache_facts' # {}) => cache_op' = "deleteObituary"]_vars

(***************************************************************************)
(* C20: the final confidence score lies between 0 and 1 for every person,  *)
(* every LLM response and every combination of penalties.                  *)
(***************************************************************************)
C20_ScoreInRange ==
    sc_result.scored => (sc_result.score >= 0 /\ sc_result.score <= 100)

(***************************************************************************)
(* C21: Scenario A.  The deceased primary "John Michael Smith Jr." (given  *)
(* and middle name, surname, suffix), reported by the extractor with       *)
(* confidence 0.95 and no uncertainty factor, with no candidate in Gramps, *)
(* scores at least 0.85, is a NEW_ENTITY and is routed to AUTO_STORE.      *)
(***************************************************************************)
C21_ScenarioA ==
    (/\ sc_result.scored
     /\ sc_input.person.given_names = "john michael"
     /\ sc_input.person.surname
     /\ sc_input.person.has_suffix
     /\ sc_input.person.is_deceased_primary
     /\ sc_input.llm_response.has_confidence
     /\ sc_input.llm_response.confidence = 95
     /\ sc_input.llm_response.uncertainty_factors = 0)
    => LET person == [confidence_score |-> sc_result.score,
                      gramps_matches |-> <<>>, conflicts |-> {},
                      new_attributes |-> {}]
           operation == validate_write_operation(person)
       IN /\ sc_result.score >= 85
          /\ operation.operation_type = "NEW_ENTITY"
          /\ determine_action(sc_result.score, operation.operation_type, FALSE)
                = "AUTO_STORE"

(***************************************************************************)
(* C22: without a possessive phrase in the context, the relationship       *)
(* clarity is 1.0 for an explicit kin term, 0.70 for a broadened term      *)
(* (step- and half- relations included), 0.40 for a vague term and 0.20    *)
(* for any other term; "stepfather" scores 0.70.                           *)
(***************************************************************************)
C22_RelationshipTiers ==
    (sc_result.scored /\ sc_input.relationship.context = "")
    => sc_result.relationship_clarity =
          (CASE sc_input.relationship.relationship_type \in {"father"} -> 100
             [] sc_input.relationship.relationship_type
                  \in {"stepfather", "half-brother", "spouse"} -> 70
             [] sc_input.relationship.relationship_type
                  \in {"partner", "friend"} -> 40
             [] OTHER -> 20)

C25_RedundantWhenNothingNew ==
    (/\ cl_result.operation_type # "none"
     /\ Len(cl_matches) = 1
     /\ cl_extracted.birth_date = cl_gramps.birth_date
     /\ cl_extracted.death_date = cl_gramps.death_date
     /\ cl_extracted.gender = cl_gramps.gender
     /\ cl_extracted.full_name = cl_gramps.full_name
     /\ cl_extracted.relationship = cl_gramps.relationship
     /\ detect_conflicts_with(cl_extracted, cl_gramps) = {}
     /\ cl_extracted.new_attributes = {})
    => /\ cl_result.operation_type = "REDUNDANT"
       /\ ~cl_result.requires_approval

C28_OnlyUnresolvedChange ==
    [][/\ \A r \in review_requests' \ review_requests :
             r.state = "sent" =>
                /\ r.fact_ids # {}
                /\ r.fact_ids \subseteq unresolvedFactIds
                /\ Cardinality(r.fact_ids) > 1 => r.fact_ids = unresolvedFactIds
       /\ \A r \in review_requests :
             (\/ [r EXCEPT !.state = "ok"] \in review_requests'
              \/ \A q \in review_requests' : q.id # r.id)
             => \A f \in Facts :
                   (fact_status'[f] # fact_status[f] \/ shown_status'[f] # shown_status[f])
                   => shown_status[f] = "unresolved"]_vars

(***************************************************************************)
(* C29: whatever the interleaving of overlapping status requests, once     *)
(* every request has completed the status shown for each fact is the       *)
(* status the server stores for it.                                        *)
(***************************************************************************)
C29_ShownEqualsStored ==
    review_requests = {} => \A f \in Facts : shown_status[f] = fact_status[f]

(***************************************************************************)
(* C30: in the sync dialog a selected match and create-new are never set   *)
(* together, whatever loadMatches (with its auto-selection), the match     *)
(* rows and Create New have done; and a sync request leaves the dialog     *)
(* only when exactly one of the two is chosen, carrying the selected       *)
(* handle with create_new false, or no handle with create_new true.        *)
(***************************************************************************)
C30_SelectionInvariant ==
    /\ [](~(modal.selectedHandle # NoHandle /\ modal.createNew))
    /\ [][\A r \in sync_requests' :
            (sync_sent' = sync_sent + 1 /\ r.id = sync_sent' /\ r.kind = "sync")
            => /\ (modal.selectedHandle # NoHandle) # modal.createNew
               /\ \/ /\ modal.selectedHandle # NoHandle
                     /\ r.gramps_handle = modal.selectedHandle
                     /\ r.create_new = FALSE
                  \/ /\ modal.createNew
                     /\ r.gramps_handle = NoHandle
                     /\ r.create_new = TRUE]_vars

\* The top match was selected automatically, the user chose Create New
\* instead, and the sync request that left the dialog asks for a new person.
C30_Witness ==
    /\ page.showSyncModal
    /\ Len(modal.matches) > 0
    /\ modal.matches[1].score >= auto_select_score
    /\ modal.createNew
    /\ modal.selectedHandle = NoHandle
    /\ modal.syncing
    /\ \E r \in sync_requests :
          /\ r.kind = "sync"
          /\ r.state = "sent"
          /\ r.create_new
          /\ r.gramps_handle = NoHandle

====
